---- MODULE Spec2Model ----
(***************************************************************************)
(* State-machine model of src/wm2014_simulation.py: the Monte Carlo        *)
(* simulation of the FIFA World Cup 2014 (group stage, knockout bracket,   *)
(* trial loop and result table).                                           *)
(*                                                                         *)
(* Numbers.  Strengths and goal rates are fixed-point thousandths          *)
(* (0.05 -> 50, 1.3 -> 1300).  A uniform draw u in [0,1) is an integer     *)
(* numerator over UNIFORM_RES.  The guard term 1e-12 of the code is far    *)
(* below that resolution: with u*(sa+sb) and sa*UNIFORM_RES integers and   *)
(* 0 <= u*1e-12 < 1 unit, u*(sa+sb+1e-12) < sa*UNIFORM_RES holds exactly   *)
(* when u*(sa+sb) < sa*UNIFORM_RES, so the term is dropped.                *)
(*                                                                         *)
(* Randomness.  numpy's Generator is a deterministic state machine seeded  *)
(* from SEED.  Spec models it as a 16-bit linear congruential generator    *)
(* whose outputs feed the Poisson and uniform draws; SpecGroup and         *)
(* SpecKnockout leave the drawn values free instead.                       *)
(***************************************************************************)
EXTENDS Integers, Sequences, FiniteSets, TLC

VARIABLES
    STRENGTH,       \* team -> strength (thousandths), as loaded from the CSV
    N_SIMULATIONS,  \* number of trials
    SEED,           \* seed of the generator
    rng,            \* generator state
    pc,             \* position of the script
    trial,          \* iterations of the Monte Carlo loop begun so far
    g,              \* index in GroupOrder of the group being simulated
    mi,             \* index in PairOrder of the next group match
    table,          \* standings of the current group: team -> [pts, gd]
    slots,          \* bracket slots filled so far: <<label, place>> -> team
    winners,        \* winners list of simulate_world_cup_2014
    nextWinners,    \* the list the halving comprehension is building
    champions,      \* champions list
    finalists,      \* finalists list
    result,         \* result table: team -> champion tally, or NoResult
    draws,          \* history: rng calls made so far in this run
    matches,        \* history: simulate_match calls that drew goals
    decisive,       \* history: matches of the current group that had a winner
    drawLog,        \* history: the rng calls of the current trial, in order
    tiebreak,       \* history: tie-break values of the last ranking
    lastKO,         \* history: the last knockout_winner call
    runNo,          \* which execution of the script this is (1 or 2)
    prevChampions,  \* champions of the first execution
    prevFinalists   \* finalists of the first execution

vars == <<STRENGTH, N_SIMULATIONS, SEED, rng, pc, trial, g, mi, table, slots,
          winners, nextWinners, champions, finalists, result, draws, matches,
          decisive, drawLog, tiebreak, lastKO, runNo, prevChampions, prevFinalists>>

-----------------------------------------------------------------------------
(* Bounds of the model *)

MaxTrials == 2      \* N_SIMULATIONS ranges over -1..MaxTrials
NumSeeds == 5       \* seeds SEED0 .. SEED0 + NumSeeds - 1
NumProfiles == 3    \* strength tables tried
MaxGoals == 2       \* free goal draws range over 0..MaxGoals
UniformSteps == 4   \* free uniform draws: UniformSteps points of [0,1)

(* Program constants *)

SEED0 == 42
BASE_GOALS == 1300
LAM_MIN == 50
STRENGTH_MIN == 50
UNIFORM_RES == 256

NoResult == "none"
NoTeam == "-"

WC2014_TEAMS ==
    << "Brazil", "Croatia", "Mexico", "Cameroon",
       "Spain", "Netherlands", "Chile", "Australia",
       "Colombia", "Greece", "Cote d'Ivoire", "Japan",
       "Uruguay", "Costa Rica", "England", "Italy",
       "Switzerland", "Ecuador", "France", "Honduras",
       "Argentina", "Bosnia and Herzegovina", "IR Iran", "Nigeria",
       "Germany", "Portugal", "Ghana", "USA",
       "Belgium", "Algeria", "Russia", "Korea Republic" >>

Roster == {WC2014_TEAMS[k] : k \in 1..Len(WC2014_TEAMS)}

\* The strengths file lists every ranked nation, not only the 32 finalists.
OtherTeam == "Wales"

GroupOrder == <<"A", "B", "C", "D", "E", "F", "G", "H">>

GROUPS ==
    [l \in {GroupOrder[k] : k \in 1..Len(GroupOrder)} |->
        CASE l = "A" -> <<"Brazil", "Croatia", "Mexico", "Cameroon">>
          [] l = "B" -> <<"Spain", "Netherlands", "Chile", "Australia">>
          [] l = "C" -> <<"Colombia", "Greece", "Cote d'Ivoire", "Japan">>
          [] l = "D" -> <<"Uruguay", "Costa Rica", "England", "Italy">>
          [] l = "E" -> <<"Switzerland", "Ecuador", "France", "Honduras">>
          [] l = "F" -> <<"Argentina", "Bosnia and Herzegovina", "IR Iran", "Nigeria">>
          [] l = "G" -> <<"Germany", "Portugal", "Ghana", "USA">>
          [] l = "H" -> <<"Belgium", "Algeria", "Russia", "Korea Republic">>]

ROUND_OF_16 ==
    << << <<"A", 1>>, <<"B", 2>> >>, << <<"C", 1>>, <<"D", 2>> >>,
       << <<"B", 1>>, <<"A", 2>> >>, << <<"D", 1>>, <<"C", 2>> >>,
       << <<"E", 1>>, <<"F", 2>> >>, << <<"G", 1>>, <<"H", 2>> >>,
       << <<"F", 1>>, <<"E", 2>> >>, << <<"H", 1>>, <<"G", 2>> >> >>

\* for i in range(4): for j in range(i + 1, 4), with 1-based indices
PairOrder == << <<1, 2>>, <<1, 3>>, <<1, 4>>, <<2, 3>>, <<2, 4>>, <<3, 4>> >>

-----------------------------------------------------------------------------
(* The random generator *)

RngNext(r) == (r * 25173 + 13849) % 65536

RngOut(r) == r \div 256

\* Mutant: default_rng() called without the seed starts from the entropy of
\* the execution.
RngUnseeded(seed, entropy) == RngNext((entropy * 7919) % 65536)

\* np.random.default_rng(SEED): a seed is given, so the generator starts from
\* it and the entropy of the execution is not used.
RngSeed(seed, entropy) == RngNext(seed % 65536)

RECURSIVE RngSkip(_, _)
RngSkip(r, n) == IF n = 0 THEN r ELSE RngSkip(RngNext(r), n - 1)

\* rng.poisson(lam): a non-negative integer, growing with the rate and with
\* the generator's output.
Poisson(lam, out) == (out * lam) \div 65536

-----------------------------------------------------------------------------
(* simulate_match *)

Max(a, b) == IF a >= b THEN a ELSE b

\* lam_a = max(0.05, BASE_GOALS * sa / (sa + sb + 1e-12)), in thousandths
Lam(sa, sb) == Max(LAM_MIN, (BASE_GOALS * sa) \div (sa + sb))

Known(a, b) == a \in DOMAIN STRENGTH /\ b \in DOMAIN STRENGTH

\* One rng call: what it was for, the value it returned and the generator
\* state it was made at.
DrawEntry(kind, stage, idx, team, value, at) ==
    [kind |-> kind, stage |-> stage, idx |-> idx, team |-> team,
     value |-> value, at |-> at]

\* Mutant: team B's goals drawn before team A's
MatchDrawsSwapped(stage, idx, a, b, ga, gb, r) ==
    << DrawEntry("goalsB", stage, idx, b, gb, r),
       DrawEntry("goalsA", stage, idx, a, ga, RngNext(r)) >>

\* The two Poisson draws of one simulate_match call made at generator state
\* r, in the order made.
MatchDraws(stage, idx, a, b, ga, gb, r) ==
    << DrawEntry("goalsA", stage, idx, a, ga, r),
       DrawEntry("goalsB", stage, idx, b, gb, RngNext(r)) >>

\* simulate_match(a, b) against generator state r
SimulateMatch(a, b, r) ==
    [ga |-> Poisson(Lam(STRENGTH[a], STRENGTH[b]), RngOut(r)),
     gb |-> Poisson(Lam(STRENGTH[b], STRENGTH[a]), RngOut(RngNext(r))),
     rng |-> RngSkip(r, 2)]

-----------------------------------------------------------------------------
(* knockout_winner *)

\* Mutant: the shootout weighted by team B's strength
PenaltyByStrengthB(sa, sb, u) == u * (sa + sb) < sb * UNIFORM_RES

\* rng.random() < sa / (sa + sb + 1e-12), u the numerator of the draw
PenaltyA(sa, sb, u) == u * (sa + sb) < sa * UNIFORM_RES

KnockoutWinner(a, b, ga, gb, u) ==
    IF ga > gb THEN a
    ELSE IF gb > ga THEN b
    ELSE IF PenaltyA(STRENGTH[a], STRENGTH[b], u) THEN a ELSE b

\* The rng calls of one knockout_winner call, in the order made: the two goal
\* draws, and the shootout draw when the function gets as far as line 138.
KnockoutDraws(stage, idx, a, b, ga, gb, u, r) ==
    MatchDraws(stage, idx, a, b, ga, gb, r)
        \o (IF ga = gb
            THEN <<DrawEntry("shootout", stage, idx, NoTeam, u, RngSkip(r, 2))>>
            ELSE <<>>)

\* One knockout_winner call at generator state r whose draws come out as ga,
\* gb and (if made) u.
KnockoutCall(stage, idx, a, b, ga, gb, u, r) ==
    [a |-> a, b |-> b, ga |-> ga, gb |-> gb,
     log |-> KnockoutDraws(stage, idx, a, b, ga, gb, u, r),
     winner |-> KnockoutWinner(a, b, ga, gb, u)]

\* knockout_winner(a, b) against generator state r
Knockout(stage, idx, a, b, r) ==
    LET m == SimulateMatch(a, b, r)
    IN  KnockoutCall(stage, idx, a, b, m.ga, m.gb, RngOut(m.rng), r)

-----------------------------------------------------------------------------
(* simulate_group *)

SeqToSet(s) == {s[k] : k \in 1..Len(s)}

ZeroTable(teams) == [t \in SeqToSet(teams) |-> [pts |-> 0, gd |-> 0]]

\* Mutant: a win worth 2 points
PlayMatchWinTwo(tbl, a, b, ga, gb) ==
    LET t1 == [tbl EXCEPT ![a].gd = @ + (ga - gb)]
        t2 == [t1 EXCEPT ![b].gd = @ + (gb - ga)]
    IN  IF ga > gb THEN [t2 EXCEPT ![a].pts = @ + 2]
        ELSE IF gb > ga THEN [t2 EXCEPT ![b].pts = @ + 2]
        ELSE [[t2 EXCEPT ![a].pts = @ + 1] EXCEPT ![b].pts = @ + 1]

\* Mutant: team B's goal difference updated with team A's margin
PlayMatchSameMargin(tbl, a, b, ga, gb) ==
    LET t1 == [tbl EXCEPT ![a].gd = @ + (ga - gb)]
        t2 == [t1 EXCEPT ![b].gd = @ + (ga - gb)]
    IN  IF ga > gb THEN [t2 EXCEPT ![a].pts = @ + 3]
        ELSE IF gb > ga THEN [t2 EXCEPT ![b].pts = @ + 3]
        ELSE [[t2 EXCEPT ![a].pts = @ + 1] EXCEPT ![b].pts = @ + 1]

\* One iteration of the match loop, lines 169-178
PlayMatch(tbl, a, b, ga, gb) ==
    LET t1 == [tbl EXCEPT ![a].gd = @ + (ga - gb)]
        t2 == [t1 EXCEPT ![b].gd = @ + (gb - ga)]
    IN  IF ga > gb THEN [t2 EXCEPT ![a].pts = @ + 3]
        ELSE IF gb > ga THEN [t2 EXCEPT ![b].pts = @ + 3]
        ELSE [[t2 EXCEPT ![a].pts = @ + 1] EXCEPT ![b].pts = @ + 1]

\* Tuple comparison of the sort keys (pts, gd, random)
KeyGreater(k1, k2) ==
    \/ k1[1] > k2[1]
    \/ k1[1] = k2[1] /\ k1[2] > k2[2]
    \/ k1[1] = k2[1] /\ k1[2] = k2[2] /\ k1[3] > k2[3]

SortKey(teams, tbl, tb, x) == <<tbl[teams[x]].pts, tbl[teams[x]].gd, tb[x]>>

\* Mutant: reverse=True left out, the ranking ascending
RankingAscending(teams, tbl, tb) ==
    LET n == Len(teams)
        key == [x \in 1..n |-> SortKey(teams, tbl, tb, x)]
        pos == [x \in 1..n |->
                    1 + Cardinality({y \in 1..n : KeyGreater(key[x], key[y])})
                      + Cardinality({y \in 1..(x - 1) : key[y] = key[x]})]
    IN  [p \in 1..n |-> teams[CHOOSE x \in 1..n : pos[x] = p]]

\* sorted(teams, key=..., reverse=True): descending by key; the sort is stable,
\* so teams with equal keys keep their order in the list.  tb[x] is the random
\* value drawn for teams[x]; the keys are computed in list order.
Ranking(teams, tbl, tb) ==
    LET n == Len(teams)
        key == [x \in 1..n |-> SortKey(teams, tbl, tb, x)]
        pos == [x \in 1..n |->
                    1 + Cardinality({y \in 1..n : KeyGreater(key[y], key[x])})
                      + Cardinality({y \in 1..(x - 1) : key[y] = key[x]})]
    IN  [p \in 1..n |-> teams[CHOOSE x \in 1..n : pos[x] = p]]

\* The rng calls of the ranking, in the order made
TieDraws(stage, teams, tb, r) ==
    [x \in 1..Len(teams) |->
        DrawEntry("tiebreak", stage, x, teams[x], tb[x], RngSkip(r, x - 1))]

\* The four rng.random() values of the sort keys, against generator state r
TieValues(teams, r) == [x \in 1..Len(teams) |-> RngOut(RngSkip(r, x - 1))]

-----------------------------------------------------------------------------
(* Results, lines 243-254 *)

Tally(t, champs) == Cardinality({k \in 1..Len(champs) : champs[k] = t})

\* Mutant: fillna(0.0) left out and the empty rows dropped
ResultTableChampionsOnly(champs, strength) ==
    [t \in {x \in DOMAIN strength : x \in Roster /\ Tally(x, champs) > 0} |->
        Tally(t, champs)]

\* One row per team of the strengths file that is in WC2014_TEAMS; p_title is
\* the row's tally over len(champions) (0.0 for a team value_counts omits).
ResultTable(champs, strength) ==
    [t \in {x \in DOMAIN strength : x \in Roster} |-> Tally(t, champs)]

-----------------------------------------------------------------------------
(* Configurations *)

AllTeams == Roster \cup {OtherTeam}

TeamIndex(t) ==
    IF t \in Roster THEN CHOOSE k \in 1..Len(WC2014_TEAMS) : WC2014_TEAMS[k] = t
    ELSE Len(WC2014_TEAMS) + 1

\* make_team_strengths.py writes strengths in [0.05, 1]: profile 1 gives every
\* team the same strength, the others spread them over that range.
StrengthValue(p, t) == STRENGTH_MIN + 50 * ((TeamIndex(t) * (p - 1)) % 20)

\* A strengths file: complete, or lacking one team of the tournament.
StrengthTables ==
    {[t \in AllTeams \ miss |-> StrengthValue(p, t)] :
        p \in 1..NumProfiles, miss \in {{}} \cup {{t} : t \in Roster}}

Seeds == SEED0..(SEED0 + NumSeeds - 1)

-----------------------------------------------------------------------------
(* The script *)

\* Module level, lines 26 and 230-231: state of a fresh execution
Boot ==
    /\ rng = RngSeed(SEED, runNo)
    /\ pc = "loop"
    /\ trial = 0
    /\ g = 1
    /\ mi = 1
    /\ table = <<>>
    /\ slots = <<>>
    /\ winners = <<>>
    /\ nextWinners = <<>>
    /\ champions = <<>>
    /\ finalists = <<>>
    /\ result = NoResult
    /\ draws = 0
    /\ matches = 0
    /\ decisive = 0
    /\ drawLog = <<>>
    /\ tiebreak = <<>>
    /\ lastKO = <<>>

Init ==
    /\ STRENGTH \in StrengthTables
    /\ N_SIMULATIONS \in (-1)..MaxTrials
    /\ SEED \in Seeds
    /\ runNo = 1
    /\ prevChampions = <<>>
    /\ prevFinalists = <<>>
    /\ Boot

config == <<STRENGTH, N_SIMULATIONS, SEED>>
rerun == <<runNo, prevChampions, prevFinalists>>

\* for _ in range(N_SIMULATIONS): one more iteration; simulate_world_cup_2014
\* is entered (slots = {}) and the first group's table is created.
LoopEnter ==
    /\ pc = "loop"
    /\ trial < N_SIMULATIONS
    /\ trial' = trial + 1
    /\ slots' = <<>>
    /\ winners' = <<>>
    /\ nextWinners' = <<>>
    /\ g' = 1
    /\ mi' = 1
    /\ table' = ZeroTable(GROUPS[GroupOrder[1]])
    /\ decisive' = 0
    /\ drawLog' = <<>>
    /\ pc' = "group"
    /\ UNCHANGED <<config, rerun, rng, champions, finalists, result, draws,
                   matches, tiebreak, lastKO>>

\* for _ in range(N_SIMULATIONS): exhausted (at once when N_SIMULATIONS <= 0)
LoopExit ==
    /\ pc = "loop"
    /\ trial >= N_SIMULATIONS
    /\ pc' = "results"
    /\ UNCHANGED <<config, rerun, rng, trial, g, mi, table, slots, winners,
                   nextWinners, champions, finalists, result, draws, matches,
                   decisive, drawLog, tiebreak, lastKO>>

\* STRENGTH[team] raises KeyError: the script ends with a traceback
Raise ==
    /\ pc' = "error"
    /\ UNCHANGED <<config, rerun, rng, trial, g, mi, table, slots, winners,
                   nextWinners, champions, finalists, result, draws, matches,
                   decisive, drawLog, tiebreak, lastKO>>

\* One iteration of the match loop of simulate_group, lines 164-178
GroupMatch ==
    /\ pc = "group"
    /\ LET label == GroupOrder[g]
           teams == GROUPS[label]
           a == teams[PairOrder[mi][1]]
           b == teams[PairOrder[mi][2]]
       IN  IF ~Known(a, b) THEN Raise
           ELSE LET m == SimulateMatch(a, b, rng)
                IN  /\ table' = PlayMatch(table, a, b, m.ga, m.gb)
                    /\ rng' = m.rng
                    /\ draws' = draws + 2
                    /\ matches' = matches + 1
                    /\ decisive' = decisive + (IF m.ga = m.gb THEN 0 ELSE 1)
                    /\ drawLog' = drawLog \o MatchDraws(label, mi, a, b, m.ga, m.gb, rng)
                    /\ mi' = mi + 1
                    /\ pc' = IF mi = Len(PairOrder) THEN "rank" ELSE "group"
                    /\ UNCHANGED <<config, rerun, trial, g, slots, winners,
                                   nextWinners, champions, finalists, result,
                                   tiebreak, lastKO>>

\* Ranking and return of simulate_group, lines 181-186, and the slot
\* assignment of its caller, lines 208-214
GroupRank ==
    /\ pc = "rank"
    /\ LET label == GroupOrder[g]
           teams == GROUPS[label]
           tb == TieValues(teams, rng)
           ranking == Ranking(teams, table, tb)
       IN  /\ tiebreak' = tb
           /\ rng' = RngSkip(rng, Len(teams))
           /\ draws' = draws + Len(teams)
           /\ drawLog' = drawLog \o TieDraws(label, teams, tb, rng)
           /\ slots' = slots @@ (<<label, 1>> :> ranking[1]) @@ (<<label, 2>> :> ranking[2])
           /\ IF g < Len(GroupOrder)
              THEN /\ g' = g + 1
                   /\ mi' = 1
                   /\ table' = ZeroTable(GROUPS[GroupOrder[g + 1]])
                   /\ decisive' = 0
                   /\ pc' = "group"
              ELSE /\ pc' = "r16"
                   /\ UNCHANGED <<g, mi, table, decisive>>
    /\ UNCHANGED <<config, rerun, trial, winners, nextWinners, champions,
                   finalists, result, matches, lastKO>>

\* What every knockout_winner call does to the generator and the history
KnockoutEffect(ko) ==
    /\ rng' = RngSkip(rng, Len(ko.log))
    /\ draws' = draws + Len(ko.log)
    /\ matches' = matches + 1
    /\ drawLog' = drawLog \o ko.log
    /\ lastKO' = ko

\* One iteration of the round-of-16 loop, lines 215-216
RoundOf16Match ==
    /\ pc = "r16"
    /\ LET k == Len(winners) + 1
           a == slots[ROUND_OF_16[k][1]]
           b == slots[ROUND_OF_16[k][2]]
       IN  IF ~Known(a, b) THEN Raise
           ELSE LET ko == Knockout("R16", k, a, b, rng)
                IN  /\ KnockoutEffect(ko)
                    /\ winners' = Append(winners, ko.winner)
                    /\ pc' = IF k < Len(ROUND_OF_16) THEN "r16"
                             ELSE IF Len(winners') > 2 THEN "ko" ELSE "final"
                    /\ UNCHANGED <<config, rerun, trial, g, mi, table, slots,
                                   nextWinners, champions, finalists, result,
                                   decisive, tiebreak>>

RoundName(n) == CASE n = 8 -> "QF" [] n = 4 -> "SF" [] OTHER -> "KO"

\* One element of the halving comprehension, lines 219-220; the last one
\* rebinds winners and the while condition is tested again.
HalvingMatch ==
    /\ pc = "ko"
    /\ LET k == Len(nextWinners) + 1
           a == winners[2 * k - 1]
           b == winners[2 * k]
       IN  IF ~Known(a, b) THEN Raise
           ELSE LET ko == Knockout(RoundName(Len(winners)), k, a, b, rng)
                    built == Append(nextWinners, ko.winner)
                IN  /\ KnockoutEffect(ko)
                    /\ IF 2 * k < Len(winners)
                       THEN /\ nextWinners' = built
                            /\ UNCHANGED <<winners, pc>>
                       ELSE /\ winners' = built
                            /\ nextWinners' = <<>>
                            /\ pc' = IF Len(built) > 2 THEN "ko" ELSE "final"
                    /\ UNCHANGED <<config, rerun, trial, g, mi, table, slots,
                                   champions, finalists, result, decisive,
                                   tiebreak>>

\* Mutant: the condition of line 224 inverted
RunnerUpInverted(champion, finalist1, finalist2) ==
    IF champion = finalist1 THEN finalist1 ELSE finalist2

\* runner_up = finalist2 if champion == finalist1 else finalist1
RunnerUp(champion, finalist1, finalist2) ==
    IF champion = finalist1 THEN finalist2 ELSE finalist1

\* The final, lines 222-225, and the appends of the caller, lines 235-237
Final ==
    /\ pc = "final"
    /\ LET finalist1 == winners[1]
           finalist2 == winners[2]
       IN  IF ~Known(finalist1, finalist2) THEN Raise
           ELSE LET ko == Knockout("F", 1, finalist1, finalist2, rng)
                    champion == ko.winner
                    runner_up == RunnerUp(champion, finalist1, finalist2)
                IN  /\ KnockoutEffect(ko)
                    /\ champions' = Append(champions, champion)
                    /\ finalists' = finalists \o <<champion, runner_up>>
                    /\ pc' = "loop"
                    /\ UNCHANGED <<config, rerun, trial, g, mi, table, slots,
                                   winners, nextWinners, result, decisive,
                                   tiebreak>>

\* Lines 243-254: the result table
Results ==
    /\ pc = "results"
    /\ result' = ResultTable(champions, STRENGTH)
    /\ pc' = "done"
    /\ UNCHANGED <<config, rerun, rng, trial, g, mi, table, slots, winners,
                   nextWinners, champions, finalists, draws, matches,
                   decisive, drawLog, tiebreak, lastKO>>

\* The script is executed a second time with the same files and settings.
Rerun ==
    /\ pc = "done"
    /\ runNo = 1
    /\ runNo' = runNo + 1
    /\ prevChampions' = champions
    /\ prevFinalists' = finalists
    /\ rng' = RngSeed(SEED, runNo + 1)
    /\ pc' = "loop"
    /\ trial' = 0
    /\ g' = 1
    /\ mi' = 1
    /\ table' = <<>>
    /\ slots' = <<>>
    /\ winners' = <<>>
    /\ nextWinners' = <<>>
    /\ champions' = <<>>
    /\ finalists' = <<>>
    /\ result' = NoResult
    /\ draws' = 0
    /\ matches' = 0
    /\ decisive' = 0
    /\ drawLog' = <<>>
    /\ tiebreak' = <<>>
    /\ lastKO' = <<>>
    /\ UNCHANGED config

Next ==
    \/ LoopEnter
    \/ LoopExit
    \/ GroupMatch
    \/ GroupRank
    \/ RoundOf16Match
    \/ HalvingMatch
    \/ Final
    \/ Results
    \/ Rerun

Spec == Init /\ [][Next]_vars

-----------------------------------------------------------------------------
(* simulate_group on its own: one call (the groups differ only in the team   *)
(* names, so the first one is taken) with the six scorelines and the four    *)
(* tie-break values left free: the generator advances with every call, but   *)
(* the values it returns are arbitrary.  drawLog is not kept here.           *)

FullTables == {T \in StrengthTables : Roster \subseteq DOMAIN T}

InitGroup ==
    /\ STRENGTH = [t \in AllTeams |-> StrengthValue(1, t)]
    /\ N_SIMULATIONS = 1
    /\ SEED = SEED0
    /\ runNo = 1
    /\ prevChampions = <<>>
    /\ prevFinalists = <<>>
    /\ rng = RngSeed(SEED, runNo)
    /\ pc = "group"
    /\ trial = 1
    /\ g = 1
    /\ mi = 1
    /\ table = ZeroTable(GROUPS[GroupOrder[g]])
    /\ slots = <<>>
    /\ winners = <<>>
    /\ nextWinners = <<>>
    /\ champions = <<>>
    /\ finalists = <<>>
    /\ result = NoResult
    /\ draws = 0
    /\ matches = 0
    /\ decisive = 0
    /\ drawLog = <<>>
    /\ tiebreak = <<>>
    /\ lastKO = <<>>

\* Lines 164-178 with the scoreline (ga, gb) of the match left free
GroupMatchFree ==
    /\ pc = "group"
    /\ \E ga \in 0..MaxGoals, gb \in 0..MaxGoals :
        LET teams == GROUPS[GroupOrder[g]]
            a == teams[PairOrder[mi][1]]
            b == teams[PairOrder[mi][2]]
        IN  /\ Known(a, b)
            /\ table' = PlayMatch(table, a, b, ga, gb)
            /\ decisive' = decisive + (IF ga = gb THEN 0 ELSE 1)
    /\ rng' = RngSkip(rng, 2)
    /\ draws' = draws + 2
    /\ matches' = matches + 1
    /\ mi' = mi + 1
    /\ pc' = IF mi = Len(PairOrder) THEN "rank" ELSE "group"
    /\ UNCHANGED <<config, rerun, trial, g, slots, winners, nextWinners,
                   champions, finalists, result, drawLog, tiebreak, lastKO>>

\* Only the relative order of the tie-break values matters to the sort: every
\* strict order of n draws, and the case of n equal draws.
TieChoices(n) == Permutations(1..n) \cup {[x \in 1..n |-> 1]}

\* Lines 181-186 with the four tie-break values left free
GroupRankFree ==
    /\ pc = "rank"
    /\ \E tb \in TieChoices(Len(GROUPS[GroupOrder[g]])) :
        LET label == GroupOrder[g]
            ranking == Ranking(GROUPS[label], table, tb)
        IN  /\ tiebreak' = tb
            /\ slots' = (<<label, 1>> :> ranking[1]) @@ (<<label, 2>> :> ranking[2])
    /\ rng' = RngSkip(rng, Len(GROUPS[GroupOrder[g]]))
    /\ draws' = draws + Len(GROUPS[GroupOrder[g]])
    /\ pc' = "ranked"
    /\ UNCHANGED <<config, rerun, trial, g, mi, table, winners,
                   nextWinners, champions, finalists, result, matches,
                   decisive, drawLog, lastKO>>

NextGroup == GroupMatchFree \/ GroupRankFree

SpecGroup == InitGroup /\ [][NextGroup]_vars

-----------------------------------------------------------------------------
(* knockout_winner on its own: one call, for any two teams, with the goal    *)
(* draws and the shootout draw left free.                                    *)

FreeUniforms == {(k * UNIFORM_RES) \div UniformSteps : k \in 0..(UniformSteps - 1)}

InitKnockout ==
    /\ STRENGTH \in FullTables
    /\ N_SIMULATIONS = 1
    /\ SEED = SEED0
    /\ runNo = 1
    /\ prevChampions = <<>>
    /\ prevFinalists = <<>>
    /\ rng = RngSeed(SEED, runNo)
    /\ pc = "knockout"
    /\ trial = 1
    /\ g = 1
    /\ mi = 1
    /\ table = <<>>
    /\ slots = <<>>
    /\ winners = <<>>
    /\ nextWinners = <<>>
    /\ champions = <<>>
    /\ finalists = <<>>
    /\ result = NoResult
    /\ draws = 0
    /\ matches = 0
    /\ decisive = 0
    /\ drawLog = <<>>
    /\ tiebreak = <<>>
    /\ lastKO = <<>>

\* Lines 127-138 with the draws left free; u is used only on equal goals
KnockoutFree ==
    /\ pc = "knockout"
    /\ \E a \in Roster, b \in Roster, ga \in 0..MaxGoals, gb \in 0..MaxGoals,
          u \in FreeUniforms :
        /\ a # b
        /\ Known(a, b)
        /\ LET ko == KnockoutCall("KO", 1, a, b, ga, gb, u, rng)
           IN  /\ lastKO' = ko
               /\ rng' = RngSkip(rng, Len(ko.log))
               /\ draws' = draws + Len(ko.log)
    /\ matches' = matches + 1
    /\ pc' = "returned"
    /\ UNCHANGED <<config, rerun, trial, g, mi, table, slots, winners,
                   nextWinners, champions, finalists, result, decisive,
                   drawLog, tiebreak>>

NextKnockout == KnockoutFree

SpecKnockout == InitKnockout /\ [][NextKnockout]_vars

-----------------------------------------------------------------------------
(* Properties of simulate_group, checked under SpecGroup *)

RECURSIVE SumOver(_, _, _)
SumOver(S, f, field) ==
    IF S = {} THEN 0
    ELSE LET t == CHOOSE x \in S : TRUE
         IN  f[t][field] + SumOver(S \ {t}, f, field)

TotalPoints == SumOver(DOMAIN table, table, "pts")
TotalGoalDiff == SumOver(DOMAIN table, table, "gd")

GroupPlayed == pc \in {"rank", "ranked"}

\* C1 as stated: once all six matches of the group have been played, the
\* points of the four teams add up to exactly 12.
C1_TotalPointsAlways12 == GroupPlayed => TotalPoints = 12

\* C1 amended: a drawn match adds 2 points (1 + 1) and a match with a winner
\* adds 3 (3 + 0), so after every match the points add up to twice the matches
\* played plus the number of matches that had a winner: 12 plus that number,
\* hence between 12 and 18, once all six have been played.
C1_TotalPointsByOutcome ==
    /\ pc = "group" => TotalPoints = 2 * (mi - 1) + decisive
    /\ GroupPlayed => /\ TotalPoints = 12 + decisive
                      /\ decisive \in 0..6
                      /\ TotalPoints \in 12..18

C1_Witness == pc = "rank" /\ decisive = 4 /\ TotalPoints = 16

\* C2: after each of the six matches, and at ranking time, the goal
\* differences of the four teams of the group add up to 0.
C2_GoalDiffSumZero == pc \in {"group", "rank", "ranked"} => TotalGoalDiff = 0

C2_Witness ==
    /\ pc = "rank"
    /\ \E t \in DOMAIN table : table[t].gd >= 2
    /\ \E t \in DOMAIN table : table[t].gd < 0

PairGreater(r1, r2) == r1.pts > r2.pts \/ (r1.pts = r2.pts /\ r1.gd > r2.gd)

TieOf(t) == tiebreak[CHOOSE x \in 1..4 : GROUPS[GroupOrder[g]][x] = t]

FullGreater(t1, t2) ==
    \/ PairGreater(table[t1], table[t2])
    \/ table[t1] = table[t2] /\ TieOf(t1) > TieOf(t2)

\* C3: simulate_group returns the first two teams of the ranking by points,
\* then goal difference, then tie-break value, all descending: two distinct
\* teams of the group; no team has a greater (points, goal difference) pair
\* than the winner, and none but the winner has a greater one than the
\* runner-up; the same holds with the tie-break value as third component.
C3_TopTwoOfRanking ==
    pc = "ranked" =>
        LET label == GroupOrder[g]
            teams == DOMAIN table
            w == slots[<<label, 1>>]
            r == slots[<<label, 2>>]
        IN  /\ w \in teams
            /\ r \in teams
            /\ w # r
            /\ \A t \in teams : ~PairGreater(table[t], table[w])
            /\ \A t \in teams \ {w} : ~PairGreater(table[t], table[r])
            /\ \A t \in teams : ~FullGreater(t, w)
            /\ \A t \in teams \ {w} : ~FullGreater(t, r)

\* A ranking that needs all three keys: the winner leads on points, the
\* runner-up is level on points and goal difference with another team and
\* has the greater tie-break value, although it comes later in the list.
C3_Witness ==
    /\ pc = "ranked"
    /\ LET w == slots[<<"A", 1>>]
           r == slots[<<"A", 2>>]
       IN  /\ table[w].pts > table[r].pts
           /\ r = "Cameroon"
           /\ table["Croatia"] = table[r]
           /\ TieOf(r) > TieOf("Croatia")
           /\ table["Mexico"].pts = table[r].pts
           /\ table["Mexico"].gd < table[r].gd

-----------------------------------------------------------------------------
(* Properties of knockout_winner, checked under SpecKnockout *)

\* C4: knockout_winner returns one of its two inputs: the higher-scoring team
\* when the goal counts differ, with no shootout draw made; on equal goals the
\* one uniform draw u decides, team_a if u < sa / (sa + sb + eps), else team_b.
C4_KnockoutWinner ==
    pc = "returned" =>
        LET k == lastKO
            sa == STRENGTH[k.a]
            sb == STRENGTH[k.b]
        IN  /\ k.winner \in {k.a, k.b}
            /\ draws = Len(k.log)
            /\ rng = RngSkip(RngSeed(SEED, runNo), Len(k.log))
            /\ k.ga > k.gb => k.winner = k.a /\ Len(k.log) = 2
            /\ k.gb > k.ga => k.winner = k.b /\ Len(k.log) = 2
            /\ k.ga = k.gb =>
                /\ Len(k.log) = 3
                /\ k.log[3].kind = "shootout"
                /\ LET u == k.log[3].value
                   IN  k.winner = IF u * (sa + sb) < sa * UNIFORM_RES
                                  THEN k.a ELSE k.b
            /\ \A n \in 1..2 : k.log[n].kind \in {"goalsA", "goalsB"}

\* A shootout the weaker side wins: equal goals, team_a the stronger team,
\* and a draw at or above its share.
C4_Witness ==
    /\ pc = "returned"
    /\ lastKO.ga = lastKO.gb
    /\ STRENGTH[lastKO.a] > STRENGTH[lastKO.b]
    /\ lastKO.winner = lastKO.b
    /\ Len(lastKO.log) = 3

-----------------------------------------------------------------------------
(* Properties of the whole script, checked under Spec *)

Returned == pc \in {"loop", "results", "done"} /\ trial >= 1

SlotTeams == {slots[k] : k \in DOMAIN slots}

\* C5: every call of simulate_world_cup_2014 that returns produces one
\* champion and one runner-up: the winners list goes 8 -> 4 -> 2, each new
\* winner coming from the pair of consecutive winners at its place, the final
\* is played between the two that remain, the champion is its winner and the
\* runner-up the other finalist, and the two are distinct teams that
\* qualified from the group stage.
C5_ChampionAndRunnerUp ==
    /\ pc = "ko" =>
        /\ Len(winners) \in {8, 4}
        /\ \A k \in 1..Len(nextWinners) :
              nextWinners[k] \in {winners[2 * k - 1], winners[2 * k]}
    /\ pc = "final" => Len(winners) = 2
    /\ Returned =>
        /\ Len(champions) = trial
        /\ Len(finalists) = 2 * trial
        /\ Len(winners) = 2
        /\ LET champion == champions[trial]
               runner_up == finalists[2 * trial]
           IN  /\ finalists[2 * trial - 1] = champion
               /\ lastKO.a = winners[1]
               /\ lastKO.b = winners[2]
               /\ champion = lastKO.winner
               /\ {champion, runner_up} = {winners[1], winners[2]}
               /\ champion # runner_up
               /\ Cardinality(DOMAIN slots) = 16
               /\ {champion, runner_up} \subseteq SlotTeams

\* A final that the first finalist wins in the shootout
C5_Witness ==
    /\ Returned
    /\ lastKO.ga = lastKO.gb
    /\ champions[trial] = winners[1]
    /\ finalists[2 * trial] = winners[2]

RECURSIVE SumTally(_, _)
SumTally(S, f) ==
    IF S = {} THEN 0
    ELSE LET t == CHOOSE x \in S : TRUE IN f[t] + SumTally(S \ {t}, f)

\* C6: after a run of N > 0 trials the result table has one entry for every
\* team of the 32-team roster, a team never champion is there with 0, and the
\* tallies add up to N.
C6_ResultTable ==
    (pc = "done" /\ N_SIMULATIONS > 0) =>
        /\ DOMAIN result = Roster
        /\ Cardinality(DOMAIN result) = 32
        /\ \A t \in Roster :
              /\ result[t] >= 0
              /\ (result[t] = 0) <=> (\A k \in 1..Len(champions) : champions[k] # t)
        /\ SumTally(DOMAIN result, result) = N_SIMULATIONS

\* Two trials with different champions: two rows of 1, thirty rows of 0
C6_Witness ==
    /\ pc = "done"
    /\ N_SIMULATIONS = 2
    /\ Cardinality({t \in DOMAIN result : result[t] = 1}) = 2
    /\ Cardinality({t \in DOMAIN result : result[t] = 0}) = 30

IsPrefix(s, t) == Len(s) <= Len(t) /\ \A k \in 1..Len(s) : s[k] = t[k]

C8_AbortBeforeAnyWork ==
    pc = "error" => draws = 0 /\ matches = 0 /\ champions = <<>>

\* C9: a trial count of zero or less is a fatal configuration error: the run
\* fails and produces no probability table.
C9_NonPositiveTrialsFail ==
    N_SIMULATIONS <= 0 => pc # "done" /\ result = NoResult

-----------------------------------------------------------------------------
(* C10: the order of the random draws within one trial *)

C10_Pairs == << <<1, 2>>, <<1, 3>>, <<1, 4>>, <<2, 3>>, <<2, 4>>, <<3, 4>> >>
C10_Labels == <<"A", "B", "C", "D", "E", "F", "G", "H">>

C10_GroupDraws == Len(C10_Labels) * 16

\* The n-th draw of the group stage: 16 per group, twelve goal draws then four
\* tie-break draws.
C10_GroupDraw(n) ==
    LET label == C10_Labels[((n - 1) \div 16) + 1]
        w == (n - 1) % 16
        m == (w \div 2) + 1
    IN  IF w < 12
        THEN [kind |-> IF w % 2 = 0 THEN "goalsA" ELSE "goalsB",
              stage |-> label, idx |-> m,
              team |-> GROUPS[label][C10_Pairs[m][(w % 2) + 1]]]
        ELSE [kind |-> "tiebreak", stage |-> label, idx |-> w - 11,
              team |-> GROUPS[label][w - 11]]

C10_Core(e) == [kind |-> e.kind, stage |-> e.stage, idx |-> e.idx, team |-> e.team]

\* The n-th call of the trial consumed the n-th state of the stream, and its
\* value is the one that state gives: the Poisson draw at the team's rate
\* against its opponent (the other team of the pair of goal draws), or the
\* uniform draw.
C10_FromStream(n) ==
    LET e == drawLog[n]
    IN  /\ n < Len(drawLog) => drawLog[n + 1].at = RngNext(e.at)
        /\ n = Len(drawLog) => rng = RngNext(e.at)
        /\ (n = 1 /\ trial = 1) => e.at = RngSeed(SEED, runNo)
        /\ e.kind = "goalsA" =>
              e.value = Poisson(Lam(STRENGTH[e.team], STRENGTH[drawLog[n + 1].team]),
                                RngOut(e.at))
        /\ e.kind = "goalsB" =>
              e.value = Poisson(Lam(STRENGTH[e.team], STRENGTH[drawLog[n - 1].team]),
                                RngOut(e.at))
        /\ e.kind \in {"tiebreak", "shootout"} => e.value = RngOut(e.at)

\* Knockout matches numbered in playing order
C10_MatchNo(e) ==
    CASE e.stage = "R16" /\ e.idx \in 1..8 -> e.idx
      [] e.stage = "QF" /\ e.idx \in 1..4 -> 8 + e.idx
      [] e.stage = "SF" /\ e.idx \in 1..2 -> 12 + e.idx
      [] e.stage = "F" /\ e.idx = 1 -> 15
      [] OTHER -> 0

C10_Feeder(stage) == CASE stage = "QF" -> "R16" [] stage = "SF" -> "QF"
                       [] stage = "F" -> "SF" [] OTHER -> "none"

\* The team of a knockout goal draw: from the pairing table in the round of
\* 16, afterwards one of the two teams of the feeding match (2k-1 for team A,
\* 2k for team B).
C10_TeamOk(n, side) ==
    LET e == drawLog[n]
    IN  IF e.stage = "R16"
        THEN e.team = slots[ROUND_OF_16[e.idx][side]]
        ELSE \E m \in (C10_GroupDraws + 1)..(n - 1) :
                /\ drawLog[m].stage = C10_Feeder(e.stage)
                /\ drawLog[m].idx = 2 * e.idx - 2 + side
                /\ drawLog[m].kind \in {"goalsA", "goalsB"}
                /\ drawLog[m].team = e.team

C10_KnockoutDraw(n) ==
    LET e == drawLog[n]
        p == drawLog[n - 1]
    IN  /\ C10_MatchNo(e) >= 1
        /\ e.kind = "goalsA" =>
              /\ IF n = C10_GroupDraws + 1
                 THEN C10_MatchNo(e) = 1
                 ELSE /\ C10_MatchNo(e) = C10_MatchNo(p) + 1
                      /\ p.kind \in {"goalsB", "shootout"}
                      /\ p.kind = "goalsB" => p.value # drawLog[n - 2].value
              /\ C10_TeamOk(n, 1)
              /\ n + 1 <= Len(drawLog)
              /\ drawLog[n + 1].kind = "goalsB"
        /\ e.kind = "goalsB" =>
              /\ p.kind = "goalsA"
              /\ C10_MatchNo(p) = C10_MatchNo(e)
              /\ C10_TeamOk(n, 2)
              /\ e.value = p.value =>
                    /\ n + 1 <= Len(drawLog)
                    /\ drawLog[n + 1].kind = "shootout"
        /\ e.kind = "shootout" =>
              /\ p.kind = "goalsB"
              /\ C10_MatchNo(p) = C10_MatchNo(e)
              /\ p.value = drawLog[n - 2].value
        /\ e.kind \in {"goalsA", "goalsB", "shootout"}

\* C10: within one trial the draws are made in a fixed order: the groups A..H,
\* each with its six matches in index order (team A's goals before team B's)
\* and then its four tie-break values; then the round of 16 in pairing-table
\* order, the quarterfinals, the semifinals and the final, pairing consecutive
\* winners; in a knockout match team A's goal draw, then team B's, then a
\* shootout draw if and only if the goal counts are equal.
C10_DrawOrder ==
    /\ \A n \in 1..Len(drawLog) :
          /\ IF n <= C10_GroupDraws
             THEN C10_Core(drawLog[n]) = C10_GroupDraw(n)
             ELSE C10_KnockoutDraw(n)
          /\ C10_FromStream(n)
    /\ trial = 1 => draws = Len(drawLog)
    /\ pc \in {"r16", "ko", "final"} => Len(drawLog) >= C10_GroupDraws
    /\ Returned => C10_MatchNo(drawLog[Len(drawLog)]) = 15

\* A finished trial with a knockout match that went to the shootout and a
\* later one that did not
C10_Witness ==
    /\ Returned
    /\ \E n \in 1..Len(drawLog) :
          /\ drawLog[n].kind = "shootout"
          /\ drawLog[n].stage = "R16"
    /\ drawLog[Len(drawLog)].kind = "goalsB"

====
